---- MODULE Spec2Model ----
(***************************************************************************)
(* Model of package timeout (src/timeout.go): one invocation of Run or     *)
(* RunSimple, i.e. the facade, RunCommand, the escalation loop             *)
(* handleTimeout, the wait task of getExitChan, the two stream-forwarding  *)
(* tasks of RunSimple, the two time.After timers and the child process.    *)
(***************************************************************************)
EXTENDS Integers, FiniteSets, Sequences, TLC

----------------------------------------------------------------------------
(* Bounds of the model *)

MaxDuration == 1
MaxKillAfter == 1
MaxTime == 3
MaxOut == 1

----------------------------------------------------------------------------
(* Program constants *)

exitNormal == 0
exitTimedOut == 124
exitUnknownErr == 125
exitKilled == 137

exitTypeNormal == 0
exitTypeTimedOut == 1
exitTypeKilled == 2

\* signal numbers: the configured signal (defaultSignal, SIGTERM) and the
\* forced kill (SIGKILL)
SIGTERM == 15
SIGKILL == 9

\* codes wrapcommander.ResolveExitCode resolves a failed cmd.Start() to
ExitCommandNotInvoked == 126
ExitCommandNotFound == 127
StartErrCodes == {ExitCommandNotInvoked, ExitCommandNotFound}

\* exit codes the child may choose when it exits on its own
ChildCodes == {0, 3}

Streams == {"stdout", "stderr"}

----------------------------------------------------------------------------
(* Pure functions *)

\* a platform wait result: exited with a code, or terminated by a signal
ExitedWith(c) == [kind |-> "exit", n |-> c]
KilledBy(s) == [kind |-> "signal", n |-> s]
ZeroWaitStatus == ExitedWith(0)

\* os/exec: Wait returns nil when the process succeeded, an *ExitError
\* carrying the wait status otherwise
WaitErr(ws) == IF ws = ExitedWith(0) THEN [kind |-> "nil"]
               ELSE [kind |-> "ExitError", ws |-> ws]

\* the errors cmd.Wait may return for a wait result: for a process that
\* succeeded also an error of the output copying, which is no *ExitError
WaitErrs(ws) == {WaitErr(ws)} \cup
                (IF ws = ExitedWith(0) THEN {[kind |-> "other"]} ELSE {})

\* variant: an error that is no *ExitError is mapped to the unknown-error
\* code
ErrorToWaitStatusUnknown(err) ==
  IF err.kind = "ExitError" THEN err.ws ELSE ExitedWith(exitUnknownErr)

\* wrapcommander.ErrorToWaitStatus: the status of an *ExitError, the zero
\* WaitStatus for every other error (nil, an I/O error)
ErrorToWaitStatus(err) == IF err.kind = "ExitError" THEN err.ws ELSE ZeroWaitStatus

\* wrapcommander.WaitStatusToExitCode
WaitStatusToExitCode(st) == IF st.kind = "signal" THEN 128 + st.n ELSE st.n

WaitStatusSignaled(st) == st.kind = "signal"

ZeroExitStatus == [Code |-> 0, Signaled |-> FALSE, typ |-> exitTypeNormal]

\* variant: IsTimedOut does not count the Killed phase
IsTimedOutOnly(ex) == ex.typ = exitTypeTimedOut

IsTimedOut(ex) == ex.typ = exitTypeTimedOut \/ ex.typ = exitTypeKilled

IsKilled(ex) == ex.typ = exitTypeKilled

\* variant: the TimedOut case is tested before the Killed case
GetExitCodeTimedOutFirst(ex) == IF IsTimedOut(ex) THEN exitTimedOut
                                ELSE IF IsKilled(ex) THEN exitKilled
                                ELSE ex.Code

GetExitCode(ex) == IF IsKilled(ex) THEN exitKilled
                   ELSE IF IsTimedOut(ex) THEN exitTimedOut
                   ELSE ex.Code

GetChildExitCode(ex) == ex.Code

NoErr == [kind |-> "nil"]
TimeoutError(code) == [kind |-> "Error", ExitCode |-> code]

\* variant: the type assertion on *Error is missing
getExitCodeFromErrUntyped(err) == IF err.kind # "nil" THEN -1 ELSE exitNormal

getExitCodeFromErr(err) == IF err.kind # "nil"
                           THEN IF err.kind = "Error" THEN err.ExitCode ELSE -1
                           ELSE exitNormal

\* variant: case 2 is armed for every KillAfter
KillArmedAlways(killAfter) == killAfter >= 0

\* handleTimeout arms case 2 only for a positive KillAfter
KillArmed(killAfter) == killAfter > 0

\* variant: the timer channel behaves as a ticker and stays ready
AfterRecvStillReady == "ready"

\* a time.After channel delivers one value: after the receive it is empty
\* for good
AfterRecv == "spent"

\* variant: every case returns ex
LoopAfterCaseReturns(chosen) == "send"

\* variant: case 0 does not return
LoopAfterCaseNoReturn(chosen) == "select"

\* variant: the loop returns ex after the forced kill
LoopAfterCaseKillReturns(chosen) == IF chosen = 1 THEN "select" ELSE "send"

\* what the loop does after a case: case 0 returns ex, cases 1 and 2 fall
\* out of the switch into the next iteration
LoopAfterCase(chosen) == IF chosen = 0 THEN "send" ELSE "select"

\* variant: both escalation cases write exitTypeKilled
TypAfterCaseKilled(chosen, typ) == exitTypeKilled

\* the phase written by an escalation case
TypAfterCase(chosen, typ) == IF chosen = 1 THEN exitTypeTimedOut ELSE exitTypeKilled

\* variant: an escalation case also overwrites Code with the reported code
ExAfterCaseSetsCode(e, chosen, ok) ==
  [e EXCEPT !.typ = TypAfterCase(chosen, e.typ),
            !.Code = IF chosen = 1 THEN exitTimedOut ELSE exitKilled]

\* variant: the phase is written only if the signal could be delivered
ExAfterCaseOnSuccess(e, chosen, ok) ==
  IF ok THEN [e EXCEPT !.typ = TypAfterCase(chosen, e.typ)] ELSE e

\* the result of an escalation case: the phase is assigned, whatever
\* terminate, killall and Process.Kill returned (their results are dropped)
ExAfterCase(e, chosen, ok) == [e EXCEPT !.typ = TypAfterCase(chosen, e.typ)]

\* variant: case 0 does not assign Code
ExAfterExitNoCode(e, st) == [e EXCEPT !.Signaled = WaitStatusSignaled(st)]

\* the ExitStatus fields written by case 0
ExAfterExit(e, st) == [e EXCEPT !.Code = WaitStatusToExitCode(st),
                                !.Signaled = WaitStatusSignaled(st)]

\* variant: the two branches on preserveStatus are swapped
SimpleCodeSwapped(preserve, exitSt) == IF preserve THEN GetExitCode(exitSt)
                                       ELSE GetChildExitCode(exitSt)

\* the value RunSimple returns for a delivered ExitStatus
SimpleCode(preserve, exitSt) == IF preserve THEN GetChildExitCode(exitSt)
                                ELSE GetExitCode(exitSt)

----------------------------------------------------------------------------
VARIABLES
  tio,        \* the Timeout: [Duration, KillAfter]
  call,       \* the facade called: [mode, preserveStatus]; the argument is
              \* drawn where RunSimple reads it
  child,      \* the child process: [state, ws, ignoresTerm, selfExits,
              \* written, exitIn]
  pending,    \* signals posted to the child and not yet acted upon
  now,        \* the clock
  timers,     \* the two time.After channels: [state, when] for case 1, 2
  facade,     \* the facade: [pc, ch, err, ret]
  loopPc,     \* position of the goroutine running handleTimeout
  ex,         \* handleTimeout's named result
  waitTask,   \* the goroutine of getExitChan: [pc, err, st]
  fwd,        \* the forwarding goroutines of RunSimple, per stream
  pipe,       \* the child's output pipes: the unread bytes of each stream
  obs         \* what has been observed of the run (calls made, values sent)

vars == <<tio, call, child, pending, now, timers, facade, loopPc, ex,
          waitTask, fwd, pipe, obs>>

NoRet == [kind |-> "none"]

Init ==
  /\ tio \in [Duration : 0..MaxDuration, KillAfter : 0..MaxKillAfter]
  /\ call \in [mode : {"Run", "RunSimple"}, preserveStatus : {FALSE}]
  /\ child \in [state : {"none"}, ws : {ZeroWaitStatus},
                ignoresTerm : BOOLEAN, selfExits : BOOLEAN, written : {0},
                exitIn : {-1}]
  /\ pending = {}
  /\ now = 0
  /\ timers = [i \in {1, 2} |-> [state |-> "unarmed", when |-> 0]]
  /\ facade = [pc |-> "start", ch |-> "nil", err |-> NoErr, ret |-> NoRet]
  /\ loopPc = "none"
  /\ ex = ZeroExitStatus
  /\ waitTask = [pc |-> "none", err |-> NoErr, st |-> ZeroWaitStatus]
  /\ fwd = [s \in Streams |-> "none"]
  /\ pipe = [s \in Streams |-> 0]
  /\ obs = [nTerminate |-> 0, nKillall |-> 0, nProcKill |-> 0, nSent |-> 0,
            recvIn |-> -1, lateSignal |-> FALSE, sigFailed |-> FALSE,
            lastCase |-> 0]

----------------------------------------------------------------------------
(* The clock and the timers *)

\* time is observed only from the loop's entry, to which both deadlines are
\* relative, until the last deadline has passed
Tick ==
  /\ now < MaxTime
  /\ loopPc = "select"
  /\ \E i \in {1, 2} : timers[i].state # "unarmed" /\ now < timers[i].when
  /\ now' = now + 1
  /\ UNCHANGED <<tio, call, child, pending, timers, facade, loopPc, ex,
                 waitTask, fwd, pipe, obs>>

\* the runtime sends on a time.After channel at or after its deadline, the
\* earlier deadline first
TimerFire(i) ==
  /\ timers[i].state = "armed"
  /\ now >= timers[i].when
  /\ (i = 2 => timers[1].state # "armed")
  /\ timers' = [timers EXCEPT ![i].state = "ready"]
  /\ UNCHANGED <<tio, call, child, pending, now, facade, loopPc, ex,
                 waitTask, fwd, pipe, obs>>

\* where the clock stands: 0 while the duration has not elapsed since the
\* loop's entry, 1 once it has, 2 once duration+killAfter has (with a
\* kill-after timer armed)
Elapsed(i) == timers[i].state # "unarmed" /\ now >= timers[i].when
Window == IF ~Elapsed(1) THEN 0 ELSE IF ~Elapsed(2) THEN 1 ELSE 2

----------------------------------------------------------------------------
(* The child process *)

Exited(c, ws) == [c EXCEPT !.state = "exited", !.ws = ws, !.exitIn = Window]

\* the child exits on its own with a code of its choice
ChildExit ==
  /\ child.state = "running"
  /\ child.selfExits
  /\ \E c \in ChildCodes : child' = Exited(child, ExitedWith(c))
  /\ pending' = {}
  /\ UNCHANGED <<tio, call, now, timers, facade, loopPc, ex, waitTask, fwd,
                 pipe, obs>>

\* the child writes one byte to one of its output streams
ChildWrite ==
  /\ child.state = "running"
  /\ call.mode = "RunSimple"
  /\ child.written < MaxOut
  /\ child' = [child EXCEPT !.written = @ + 1]
  /\ \E s \in Streams : pipe' = [pipe EXCEPT ![s] = @ + 1]
  /\ UNCHANGED <<tio, call, pending, now, timers, facade, loopPc, ex,
                 waitTask, fwd, obs>>

\* the child acts on a posted signal: it ignores the configured signal if
\* it chose to, and dies of every other one
ChildSignal ==
  /\ child.state = "running"
  /\ \E sig \in pending :
       IF sig = SIGTERM /\ child.ignoresTerm
       THEN /\ pending' = pending \ {sig}
            /\ UNCHANGED child
       ELSE /\ child' = Exited(child, KilledBy(sig))
            /\ pending' = {}
  /\ UNCHANGED <<tio, call, now, timers, facade, loopPc, ex, waitTask, fwd,
                 pipe, obs>>

----------------------------------------------------------------------------
(* Signal delivery *)

\* a signal sent to the child: posted if the delivery succeeds and the
\* child is still running, without effect otherwise
Deliver(sigs, sig, ok) ==
  IF ok /\ child.state = "running" THEN sigs \cup {sig} ELSE sigs

\* tio.terminate(): sends the configured signal to the process (group)
terminate(sigs, ok) == Deliver(sigs, SIGTERM, ok)

\* tio.killall(): sends the forced kill to the process (group)
killall(sigs, ok) == Deliver(sigs, SIGKILL, ok)

\* cmd.Process.Kill()
ProcessKill(sigs, ok) == Deliver(sigs, SIGKILL, ok)

\* the process-exit event has fired: the wait result is offered to the loop
ExitFired == waitTask.pc \in {"send", "done"}

----------------------------------------------------------------------------
(* The facades and RunCommand *)

\* RunSimple: cmd.StdoutPipe() or cmd.StderrPipe() fails
SimplePipeFail ==
  /\ facade.pc = "start"
  /\ call.mode = "RunSimple"
  /\ facade' = [facade EXCEPT !.pc = "returned",
                  !.ret = [kind |-> "code", code |-> exitUnknownErr]]
  /\ UNCHANGED <<tio, call, child, pending, now, timers, loopPc, ex,
                 waitTask, fwd, pipe, obs>>

\* RunCommand: cmd.Start() fails; the facade returns at once
StartFail ==
  /\ facade.pc = "start"
  /\ \E code \in StartErrCodes :
       LET err == TimeoutError(code) IN
       facade' = [pc |-> "returned", ch |-> "nil", err |-> err,
                  ret |-> IF call.mode = "Run"
                          THEN [kind |-> "status", status |-> ZeroExitStatus,
                                err |-> err]
                          ELSE [kind |-> "code",
                                code |-> getExitCodeFromErr(err)]]
  /\ UNCHANGED <<tio, call, child, pending, now, timers, loopPc, ex,
                 waitTask, fwd, pipe, obs>>

\* RunCommand: cmd.Start() succeeds; the goroutine that runs handleTimeout
\* is created and the handle returned. RunSimple then starts its two
\* forwarding goroutines. The facade goes on to receive from the handle.
StartOK ==
  /\ facade.pc = "start"
  /\ facade' = [facade EXCEPT !.pc = "recv", !.ch = "chan"]
  /\ child' = [child EXCEPT !.state = "running"]
  /\ loopPc' = "start"
  /\ fwd' = IF call.mode = "RunSimple"
            THEN [s \in Streams |-> "copying"]
            ELSE fwd
  /\ UNCHANGED <<tio, call, pending, now, timers, ex, waitTask, pipe, obs>>

\* the send of RunCommand's goroutine meets the facade's receive; the
\* facade returns
RecvExitStatus ==
  /\ loopPc = "send"
  /\ facade.pc = "recv"
  /\ loopPc' = "done"
  /\ obs' = [obs EXCEPT !.nSent = @ + 1]
  /\ \E preserve \in (IF call.mode = "Run" THEN {FALSE} ELSE BOOLEAN) :
       /\ call' = [call EXCEPT !.preserveStatus = preserve]
       /\ facade' = [facade EXCEPT !.pc = "returned",
                       !.ret = IF call.mode = "Run"
                               THEN [kind |-> "status", status |-> ex,
                                     err |-> NoErr]
                               ELSE [kind |-> "code",
                                     code |-> SimpleCode(preserve, ex)]]
  /\ UNCHANGED <<tio, child, pending, now, timers, ex, waitTask, fwd, pipe>>

----------------------------------------------------------------------------
(* handleTimeout *)

\* entry: getExitChan starts the wait task, the timers are armed
LoopStart ==
  /\ loopPc = "start"
  /\ loopPc' = "select"
  /\ waitTask' = [waitTask EXCEPT !.pc = "wait"]
  /\ timers' = [i \in {1, 2} |->
                  IF i = 1
                  THEN [state |-> "armed", when |-> now + tio.Duration]
                  ELSE IF KillArmed(tio.KillAfter)
                  THEN [state |-> "armed",
                        when |-> now + tio.Duration + tio.KillAfter]
                  ELSE timers[i]]
  /\ UNCHANGED <<tio, call, child, pending, now, facade, ex, fwd, pipe, obs>>

\* case 0: the wait result is received
SelectExit ==
  /\ loopPc = "select"
  /\ waitTask.pc = "send"
  /\ ex' = ExAfterExit(ex, waitTask.st)
  /\ waitTask' = [waitTask EXCEPT !.pc = "done"]
  /\ loopPc' = LoopAfterCase(0)
  /\ obs' = [obs EXCEPT !.recvIn = Window]
  /\ UNCHANGED <<tio, call, child, pending, now, timers, facade, fwd, pipe>>

\* case 1: the timeout timer is received
SelectTimeout ==
  /\ loopPc = "select"
  /\ timers[1].state = "ready"
  /\ timers' = [timers EXCEPT ![1].state = AfterRecv]
  /\ \E ok \in BOOLEAN :
       /\ pending' = terminate(pending, ok)
       /\ ex' = ExAfterCase(ex, 1, ok)
       /\ obs' = [obs EXCEPT !.nTerminate = @ + 1,
                             !.lateSignal = @ \/ ExitFired,
                             !.sigFailed = @ \/ ~ok,
                             !.lastCase = 1]
  /\ loopPc' = LoopAfterCase(1)
  /\ UNCHANGED <<tio, call, child, now, facade, waitTask, fwd, pipe>>

\* case 2: the kill-after timer is received
SelectKill ==
  /\ loopPc = "select"
  /\ timers[2].state = "ready"
  /\ timers' = [timers EXCEPT ![2].state = AfterRecv]
  /\ \E ok1, ok2 \in BOOLEAN :
       /\ pending' = ProcessKill(killall(pending, ok1), ok2)
       /\ ex' = ExAfterCase(ex, 2, ok1 /\ ok2)
       /\ obs' = [obs EXCEPT !.nKillall = @ + 1, !.nProcKill = @ + 1,
                             !.lateSignal = @ \/ ExitFired,
                             !.sigFailed = @ \/ ~(ok1 /\ ok2),
                             !.lastCase = 2]
  /\ loopPc' = LoopAfterCase(2)
  /\ UNCHANGED <<tio, call, child, now, facade, waitTask, fwd, pipe>>

----------------------------------------------------------------------------
(* getExitChan's goroutine *)

\* cmd.Wait() returns once the child has exited: it reaps the child and
\* closes the read ends of the pipes; the status is then offered on ch
WaitReturn ==
  /\ waitTask.pc = "wait"
  /\ child.state = "exited"
  /\ child' = [child EXCEPT !.state = "reaped"]
  /\ \E err \in WaitErrs(child.ws) :
       waitTask' = [pc |-> "send", err |-> err, st |-> ErrorToWaitStatus(err)]
  /\ UNCHANGED <<tio, call, pending, now, timers, facade, loopPc, ex, fwd,
                 pipe, obs>>

----------------------------------------------------------------------------
(* RunSimple's forwarding goroutines *)

\* the read end of the pipes is closed by cmd.Wait
PipeClosed == child.state = "reaped"

\* io.Copy moves one byte of the stream to the caller's output
FwdCopy(s) ==
  /\ fwd[s] = "copying"
  /\ ~PipeClosed
  /\ pipe[s] > 0
  /\ pipe' = [pipe EXCEPT ![s] = @ - 1]
  /\ UNCHANGED <<tio, call, child, pending, now, timers, facade, loopPc, ex,
                 waitTask, fwd, obs>>

\* io.Copy returns: end of stream (the child has exited and the pipe is
\* empty) or a read from the closed pipe
FwdDone(s) ==
  /\ fwd[s] = "copying"
  /\ \/ PipeClosed
     \/ child.state = "exited" /\ pipe[s] = 0
  /\ fwd' = [fwd EXCEPT ![s] = "done"]
  /\ UNCHANGED <<tio, call, child, pending, now, timers, facade, loopPc, ex,
                 waitTask, pipe, obs>>

----------------------------------------------------------------------------
Next ==
  \/ Tick
  \/ \E i \in {1, 2} : TimerFire(i)
  \/ ChildExit
  \/ ChildWrite
  \/ ChildSignal
  \/ SimplePipeFail
  \/ StartFail
  \/ StartOK
  \/ RecvExitStatus
  \/ LoopStart
  \/ SelectExit
  \/ SelectTimeout
  \/ SelectKill
  \/ WaitReturn
  \/ \E s \in Streams : FwdCopy(s)
  \/ \E s \in Streams : FwdDone(s)

Spec == Init /\ [][Next]_vars

\* the goroutines of the loop, of the wait task and of the facade are
\* scheduled fairly; the child and the timers are not obliged to act
Fairness ==
  /\ WF_vars(LoopStart)
  /\ WF_vars(WaitReturn)
  /\ WF_vars(SelectExit)
  /\ WF_vars(RecvExitStatus)

FairSpec == Spec /\ Fairness

TypeOK ==
  /\ now \in 0..MaxTime
  /\ loopPc \in {"none", "start", "select", "send", "done"}
  /\ ex.typ \in {exitTypeNormal, exitTypeTimedOut, exitTypeKilled}
  /\ child.state \in {"none", "running", "exited", "reaped"}

----------------------------------------------------------------------------
(* Shorthands of the properties *)

\* the ExitStatus has been sent on the handle and received
Delivered == obs.nSent = 1

\* the loop has handled the timeout event / the kill-after event
TimeoutHandled == timers[1].state = "spent"
KillHandled == timers[2].state = "spent"

NoSignalSent == obs.nTerminate = 0 /\ obs.nKillall = 0 /\ obs.nProcKill = 0

SpawnFailed == facade.err.kind = "Error"

----------------------------------------------------------------------------
(* C1 *)

\* C1: after a successful spawn exactly one ExitStatus is sent on the handle
\* RunCommand returned: never more than one, none before the loop has
\* consumed the process-exit event, and the one is produced as soon as that
\* event is consumed, whether 0, 1 or 2 escalation events were handled
\* before; the facade returns only with that one value.
C1_ExactlyOneExitStatus ==
  /\ obs.nSent <= 1
  /\ (obs.nSent = 1 <=> loopPc = "done")
  /\ (waitTask.pc = "done" <=> loopPc \in {"send", "done"})
  /\ (facade.pc = "returned" /\ facade.ch = "chan" => obs.nSent = 1)

C1_Witness == Delivered /\ TimeoutHandled /\ KillHandled

----------------------------------------------------------------------------
(* C2 *)

\* C2: the phase tag never moves backward (Normal -> TimedOut -> Killed), and
\* it is not changed any more once the process-exit event is consumed, so
\* the delivered phase is the last one reached before.
C2_PhaseMonotonic ==
  [][/\ ex'.typ >= ex.typ
     /\ (loopPc' \in {"send", "done"} => ex'.typ = ex.typ)]_vars

----------------------------------------------------------------------------
(* C3 *)

\* C3 as stated: for Duration > 0, a child that finishes before the duration
\* elapses is reported with phase Normal, its own exit code, and no signal
\* was sent.
C3_FinishedBeforeDuration ==
  (Delivered /\ tio.Duration > 0 /\ child.exitIn = 0)
    => /\ ex.typ = exitTypeNormal
       /\ ~IsTimedOut(ex) /\ ~IsKilled(ex)
       /\ child.ws.kind = "exit" /\ GetExitCode(ex) = child.ws.n
       /\ NoSignalSent

\* C3 amended: for Duration > 0, if the loop receives the child's wait result
\* before the duration elapses, the delivered ExitStatus has phase Normal,
\* GetExitCode() equals the child's own exit code, and no signal was sent.
C3_ReceivedBeforeDuration ==
  (Delivered /\ tio.Duration > 0 /\ obs.recvIn = 0)
    => /\ ex.typ = exitTypeNormal
       /\ ~IsTimedOut(ex) /\ ~IsKilled(ex)
       /\ child.ws.kind = "exit" /\ GetExitCode(ex) = child.ws.n
       /\ NoSignalSent

C3_Witness ==
  /\ Delivered /\ tio.Duration > 0 /\ obs.recvIn = 0
  /\ child.ws = ExitedWith(3)

----------------------------------------------------------------------------
(* C4 *)

\* the child ignored the configured signal, was running when the duration
\* elapsed and exited on its own before duration+killAfter elapsed
C4_Case ==
  /\ Delivered
  /\ tio.KillAfter > 0
  /\ child.ignoresTerm
  /\ child.ws.kind = "exit"
  /\ child.exitIn = 1

C4_Result ==
  /\ ex.typ = exitTypeTimedOut
  /\ IsTimedOut(ex) /\ ~IsKilled(ex)
  /\ GetExitCode(ex) = 124
  /\ GetChildExitCode(ex) = child.ws.n

\* C4 as stated: with killAfter > 0, a child that ignores the signal, runs
\* past the duration and exits on its own before duration+killAfter is
\* reported TimedOut, 124, with its real code as the child code.
C4_ExitedBeforeKillAfter == C4_Case => C4_Result

\* C4 amended: the same, provided that the loop handled the timeout event
\* before it received the wait result and that it received the wait result
\* before duration+killAfter elapsed.
C4_ReceivedBeforeKillAfter ==
  (C4_Case /\ TimeoutHandled /\ obs.recvIn = 1) => C4_Result

C4_Witness ==
  /\ C4_Case /\ TimeoutHandled /\ obs.recvIn = 1
  /\ child.ws = ExitedWith(3)

----------------------------------------------------------------------------
(* C5 *)

\* C5: with killAfter > 0, a child that ignores the configured signal and
\* never exits on its own is sent the forced kill when the kill-after event
\* is handled, and the ExitStatus then delivered has phase Killed and
\* GetExitCode() = 137.
C5_ForcedKill ==
  (tio.KillAfter > 0 /\ child.ignoresTerm /\ ~child.selfExits)
    => /\ (KillHandled => obs.nKillall = 1 /\ obs.nProcKill = 1)
       /\ (Delivered => KillHandled /\ IsKilled(ex) /\ GetExitCode(ex) = 137)

----------------------------------------------------------------------------
(* C6 *)

\* C6: with killAfter = 0 the kill-after event is never armed, no forced
\* kill is issued, the phase never becomes Killed, the configured signal is
\* sent exactly once when the timeout is handled and never again, and no
\* ExitStatus is delivered while the child runs.
C6_NoKillWithoutKillAfter ==
  tio.KillAfter = 0
    => /\ timers[2].state = "unarmed"
       /\ obs.nKillall = 0 /\ obs.nProcKill = 0
       /\ SIGKILL \notin pending
       /\ ex.typ # exitTypeKilled
       /\ obs.nTerminate = (IF TimeoutHandled THEN 1 ELSE 0)
       /\ (loopPc \in {"send", "done"} => child.state = "reaped")

C6_Witness ==
  /\ tio.KillAfter = 0 /\ TimeoutHandled /\ child.state = "running"
  /\ child.ignoresTerm /\ obs.nTerminate = 1 /\ pending = {}

----------------------------------------------------------------------------
(* C7 *)

\* C7: each escalation event is handled at most once: a consumed timer stays
\* consumed, the configured signal is sent at most once and the forced kill
\* sequence is performed at most once.
C7_EscalationAtMostOnce ==
  [][/\ \A i \in {1, 2} : timers[i].state = "spent" => timers'[i].state = "spent"
     /\ obs'.nTerminate <= 1 /\ obs'.nKillall <= 1 /\ obs'.nProcKill <= 1]_vars

C7_Witness == TimeoutHandled /\ KillHandled /\ child.state = "running"

----------------------------------------------------------------------------
(* C8 *)

\* C8 as stated: no escalation signal is sent once the wait result is
\* available to the loop.
C8_NoSignalAfterExitFired == ~obs.lateSignal

\* C8 amended: once the loop has consumed the process-exit event, no
\* escalation signal is sent, even if a timer becomes ready later.
C8_NoSignalAfterExitConsumed ==
  [][waitTask.pc = "done"
       => /\ obs'.nTerminate = obs.nTerminate
          /\ obs'.nKillall = obs.nKillall
          /\ obs'.nProcKill = obs.nProcKill
          /\ pending' = pending]_vars

C8_Witness ==
  /\ waitTask.pc = "done"
  /\ \E i \in {1, 2} : timers[i].state = "ready"

----------------------------------------------------------------------------
(* C9 *)

\* C9: when the spawn fails, RunCommand returns no handle and an Error with
\* the resolved exit code; the loop is not entered, no timer is armed, no
\* signal is sent, no ExitStatus is produced; Run returns the zero
\* ExitStatus with that error and RunSimple the error's exit code.
C9_SpawnFailure ==
  SpawnFailed
    => /\ facade.ch = "nil"
       /\ facade.err.ExitCode \in StartErrCodes
       /\ loopPc = "none" /\ waitTask.pc = "none"
       /\ \A i \in {1, 2} : timers[i].state = "unarmed"
       /\ NoSignalSent /\ pending = {}
       /\ obs.nSent = 0 /\ ex = ZeroExitStatus
       /\ facade.pc = "returned"
       /\ (call.mode = "Run"
             => facade.ret = [kind |-> "status", status |-> ZeroExitStatus,
                              err |-> facade.err])
       /\ (call.mode = "RunSimple"
             => facade.ret = [kind |-> "code", code |-> facade.err.ExitCode])

C9_Witness ==
  /\ SpawnFailed /\ call.mode = "RunSimple"
  /\ facade.ret = [kind |-> "code", code |-> ExitCommandNotFound]

----------------------------------------------------------------------------
(* C10 *)

\* C10: when RunSimple returns the exit code of a run, both forwarding tasks
\* have finished and have copied all of the child's output.
C10_ForwardersDrained ==
  (call.mode = "RunSimple" /\ facade.pc = "returned" /\ facade.ch = "chan")
    => \A s \in Streams : fwd[s] = "done" /\ pipe[s] = 0

----------------------------------------------------------------------------
(* C11 *)

\* C11: for every delivered ExitStatus, RunSimple(true) returns the raw child
\* code, also when the phase is TimedOut or Killed, and RunSimple(false)
\* returns 137 for Killed, 124 for TimedOut and the raw code for Normal.
C11_PreserveStatus ==
  (call.mode = "RunSimple" /\ Delivered)
    => /\ facade.ret.kind = "code"
       /\ (call.preserveStatus => facade.ret.code = ex.Code)
       /\ (~call.preserveStatus
             => facade.ret.code = (CASE ex.typ = exitTypeKilled -> 137
                                     [] ex.typ = exitTypeTimedOut -> 124
                                     [] OTHER -> ex.Code))

C11_Witness ==
  /\ call.mode = "RunSimple" /\ Delivered /\ call.preserveStatus
  /\ ex.typ = exitTypeTimedOut /\ ex.Code = 3 /\ facade.ret.code = 3

----------------------------------------------------------------------------
(* C12 *)

\* C12: GetExitCode() is 137 for the phase Killed, 124 for TimedOut and the
\* raw Code for Normal, whatever the Signaled field is.
C12_GetExitCode ==
  \A sg \in BOOLEAN :
    GetExitCode([ex EXCEPT !.Signaled = sg])
      = (CASE ex.typ = exitTypeKilled -> 137
           [] ex.typ = exitTypeTimedOut -> 124
           [] ex.typ = exitTypeNormal -> ex.Code)

C12_Witness == ex.typ = exitTypeKilled /\ ex.Signaled /\ ex.Code = 137

----------------------------------------------------------------------------
(* C13 *)

\* C13: the phase Killed is entered only from TimedOut, after the configured
\* signal has been sent, and once the kill-after event has been handled no
\* termination signal is sent any more.
C13_EscalationOrder ==
  [][/\ (ex'.typ = exitTypeKilled /\ ex.typ # exitTypeKilled
           => ex.typ = exitTypeTimedOut /\ obs.nTerminate = 1)
     /\ (KillHandled => obs'.nTerminate = obs.nTerminate)]_vars

----------------------------------------------------------------------------
(* C14 *)

\* C14: the escalation cases leave Code and Signaled unchanged; the two
\* fields are written only when the process-exit event is consumed, and the
\* child code of a delivered ExitStatus is the code of the child's real wait
\* result.
C14_EscalationKeepsCode ==
  [][/\ (ex'.Code # ex.Code \/ ex'.Signaled # ex.Signaled
           => waitTask.pc = "send" /\ waitTask'.pc = "done")
     /\ (obs'.lastCase # obs.lastCase \/ timers' # timers
           => ex'.Code = ex.Code /\ ex'.Signaled = ex.Signaled)
     /\ (obs'.nSent = 1
           => /\ GetChildExitCode(ex')
                   = (IF child'.ws.kind = "signal" THEN 128 + child'.ws.n
                      ELSE child'.ws.n)
              /\ ex'.Signaled = (child'.ws.kind = "signal"))]_vars

C14_Witness ==
  /\ Delivered /\ TimeoutHandled /\ KillHandled
  /\ ex.Code = 128 + SIGTERM /\ ex.Signaled

----------------------------------------------------------------------------
(* C15 *)

\* C15: a signal that could not be delivered is not fatal: the case still
\* writes its phase, the loop goes on selecting, no error reaches the
\* facade, and the ExitStatus is delivered once when the child exits.
C15_SignalFailureNotFatal ==
  [][/\ (obs'.nTerminate # obs.nTerminate
           => ex'.typ = exitTypeTimedOut /\ loopPc' = "select")
     /\ (obs'.nKillall # obs.nKillall
           => ex'.typ = exitTypeKilled /\ loopPc' = "select")
     /\ (obs'.sigFailed
           => /\ facade'.err = NoErr
              /\ obs'.nSent <= 1
              /\ (waitTask'.pc = "done" => loopPc' \in {"send", "done"})
              /\ (facade'.pc = "returned"
                    => obs'.nSent = 1 /\ facade'.ret.kind \in {"status", "code"}
                       /\ (facade'.ret.kind = "status"
                             => facade'.ret.err = NoErr)))]_vars

C15_Witness ==
  /\ obs.sigFailed /\ Delivered /\ facade.pc = "returned"
  /\ KillHandled /\ child.ws.kind = "exit"

----------------------------------------------------------------------------
(* C16 *)

\* C16: once the child has exited, the loop eventually terminates, the
\* ExitStatus is eventually delivered and the facade eventually returns.
C16_EventuallyDelivered ==
  (child.state = "exited") ~> (loopPc = "done" /\ Delivered /\ facade.pc = "returned")

C16_Witness ==
  /\ loopPc = "done" /\ Delivered /\ facade.pc = "returned"
  /\ TimeoutHandled /\ ~KillHandled

----------------------------------------------------------------------------
(* C17 *)

\* C17: the loop ends only through the process-exit event: handling the
\* timeout or the kill-after event neither ends the loop nor sends an
\* ExitStatus, and no ExitStatus is produced while the child is running or
\* not yet waited for.
C17_OnlyExitEndsLoop ==
  [][/\ (obs'.nTerminate # obs.nTerminate \/ obs'.nKillall # obs.nKillall
           => loopPc' = "select" /\ obs'.nSent = 0)
     /\ (loopPc' \in {"send", "done"}
           => child'.state = "reaped" /\ waitTask'.pc = "done")
     /\ (obs'.nSent # obs.nSent => child.state = "reaped")]_vars

C17_Witness ==
  /\ KillHandled /\ SIGKILL \in pending /\ child.state = "running"
  /\ loopPc = "select" /\ obs.nSent = 0

----------------------------------------------------------------------------
(* C18 *)

\* C18: when cmd.Wait's result is no *ExitError, so that no wait status can
\* be taken from it, the ExitStatus is delivered all the same, without an
\* error, with Code 0 and Signaled false and with the phase of the
\* escalation case handled last.
C18_UnclassifiedWaitResult ==
  (waitTask.pc = "done" /\ waitTask.err.kind # "ExitError")
    => /\ ex.Code = 0 /\ ~ex.Signaled
       /\ ex.typ = (CASE obs.lastCase = 0 -> exitTypeNormal
                      [] obs.lastCase = 1 -> exitTypeTimedOut
                      [] obs.lastCase = 2 -> exitTypeKilled)
       /\ loopPc \in {"send", "done"}
       /\ facade.err = NoErr
       /\ (facade.pc = "returned" => Delivered)

C18_Witness ==
  /\ Delivered /\ waitTask.err.kind = "other" /\ ex.typ = exitTypeTimedOut

----------------------------------------------------------------------------
(* C19 *)

\* C19: the facade returns only after the loop has received the wait task's
\* send and the facade the loop's send, that is with both goroutines
\* finished; and once the child has exited both sends are eventually
\* received.
C19_NoTaskLeftBlocked ==
  /\ [](facade.pc = "returned" /\ facade.ch = "chan"
          => waitTask.pc = "done" /\ loopPc = "done")
  /\ ((child.state = "exited") ~> (waitTask.pc = "done" /\ loopPc = "done"))

C19_Witness ==
  /\ facade.pc = "returned" /\ facade.ch = "chan"
  /\ waitTask.pc = "done" /\ loopPc = "done"
  /\ \E i \in {1, 2} : timers[i].state = "armed"

----------------------------------------------------------------------------
(* C20 *)

\* C20: in a delivered ExitStatus, IsTimedOut() is false exactly if the loop
\* sent no signal at all, IsKilled() holds only if the forced kill was
\* issued, and IsKilled() implies IsTimedOut().
C20_PhaseAgreesWithActions ==
  Delivered
    => /\ (~IsTimedOut(ex) <=> NoSignalSent)
       /\ (IsKilled(ex) => obs.nKillall = 1 /\ obs.nProcKill = 1)
       /\ (IsKilled(ex) => IsTimedOut(ex))

C20_Witness ==
  /\ Delivered /\ IsKilled(ex) /\ obs.nKillall = 1 /\ obs.nTerminate = 0

====
